---------------------------- MODULE Spec2Model ----------------------------
(***************************************************************************)
(* Model of src/src/session.ts: the Session class of dialob-fill-api.      *)
(*                                                                         *)
(*  - the reducer applyActions (an immer produce over the session state),  *)
(*  - the debounced action queue (queueAction / syncQueuedActions),        *)
(*  - the sync coordinator (sync / pull) against the external transport.   *)
(***************************************************************************)
EXTENDS Integers, Sequences, FiniteSets, TLC

(***************************************************************************)
(* Bounds of the model                                                     *)
(***************************************************************************)
MaxBatch == 2        \* longest action batch handed to applyActions in SpecReducer
MaxEnqueue == 2      \* calls of setAnswer/complete/next/previous in one run
MaxPull == 1         \* calls of pull() in one run
MaxErrors == 1       \* longest state.errors list in SpecSnapshot
MaxSubscribed == 3   \* listener subscriptions held at one time, over the three lists

(***************************************************************************)
(* Data universe                                                           *)
(***************************************************************************)
Ids == {"q1", "a1", "a2"}

\* `undefined` for state.locale
Undefined == "undefined"
\* the `rev` argument of applyActions left out (rev?: number)
NoRev == -1

\* SessionItem (ItemAction['item']): container kinds carry `items`
Container(id, type, children) ==
    [id |-> id, type |-> type, hasItems |-> TRUE, items |-> children, value |-> "null"]
Leaf(id, type) ==
    [id |-> id, type |-> type, hasItems |-> FALSE, items |-> <<>>, value |-> "null"]

ItemUniverse ==
    { Container("q1", "group", <<"a1", "a2">>),
      Container("q1", "group", <<"a1">>),
      Leaf("a1", "text") }

ResetAction == [type |-> "RESET"]
AnswerAction(id, v) == [type |-> "ANSWER", id |-> id, answer |-> v]
ItemAction(item) == [type |-> "ITEM", item |-> item]
ErrorAction == [type |-> "ERROR", error |-> "e1"]
LocaleAction == [type |-> "LOCALE", value |-> "en"]
ValueSetAction == [type |-> "VALUE_SET", valueSet |-> [id |-> "vs1", entries |-> "yes-no"]]
RemoveItemsAction(ids) == [type |-> "REMOVE_ITEMS", ids |-> ids]
CompleteAction == [type |-> "COMPLETE"]
NextAction == [type |-> "NEXT"]
PreviousAction == [type |-> "PREVIOUS"]
\* an action whose tag is none of the known ones
BogusAction == [type |-> "BOGUS"]

\* the actions the reducer is driven with in SpecReducer
Actions ==
    { ResetAction, CompleteAction, BogusAction }
    \cup { AnswerAction(id, "x") : id \in {"a1", "q1"} }
    \cup { ItemAction(i) : i \in ItemUniverse }
    \cup { RemoveItemsAction(s) : s \in { <<"a1">>, <<"q1">> } }

\* the actions the reducer is driven with in SpecSnapshot: every field of the
\* snapshot is written by one of them
SnapshotActions ==
    { ResetAction, LocaleAction, ValueSetAction, ErrorAction, CompleteAction,
      ItemAction(Container("q1", "group", <<"a1">>)), ItemAction(Leaf("a1", "text")),
      AnswerAction("a1", "x") }

RECURSIVE SeqsUpTo(_, _)
SeqsUpTo(S, n) ==
    IF n = 0 THEN { <<>> }
    ELSE LET shorter == SeqsUpTo(S, n - 1)
         IN  shorter \cup { Append(s, x) : s \in { t \in shorter : Len(t) = n - 1 }, x \in S }

Batches == SeqsUpTo(Actions, MaxBatch)

SnapshotBatches == SeqsUpTo(SnapshotActions, MaxBatch)

RevArgs == { NoRev, 0, 1 }

\* the action lists the remote authority answers a pull or a push with
ResponseBatches ==
    { << >>,
      << AnswerAction("a1", "y") >>,
      << ResetAction, LocaleAction, ValueSetAction, ErrorAction, ItemAction(Leaf("a1", "text")) >>,
      << BogusAction >> }

\* the delays after which the caller or the event loop acts again (ms)
Delays == { 250 }

(***************************************************************************)
(* State                                                                   *)
(***************************************************************************)
VARIABLES
    state,            \* this.state: SessionState
    syncActionQueue,  \* this.syncActionQueue, each entry with its issue number
    syncTimer,        \* this.syncTimer: the handle of the latest timer, or NoTimer
    timers,           \* the event loop's timer table: handle -> ms until it is due
    ops,              \* the sync()/pull() calls awaiting their response, in call order
    serverRev,        \* the remote authority's revision counter
    call,             \* what the latest applyActions call did (observation)
    issued,           \* number of queueAction calls so far (observation)
    sinceLast,        \* ms since the latest queueAction call, while a timer runs (observation)
    pending,          \* the snapshot the pending batch started from (observation)
    last,             \* the sync()/pull() call that ended latest (observation)
    pulls,            \* number of pull() calls so far (observation)
    log,              \* per issue number, the transport.update calls carrying it (observation)
    listeners,        \* this.listeners: the three subscriber lists
    fire              \* the fan-out (listeners[type].map) in progress or ended latest

vars == << state, syncActionQueue, syncTimer, timers, ops, serverRev, call, issued,
           sinceLast, pending, last, pulls, log, listeners, fire >>

\* this.syncTimer === undefined
NoTimer == 0

\* constructor, lines 50-57
InitialState ==
    [ items |-> << >>,
      reverseItemMap |-> << >>,
      valueSets |-> << >>,
      errors |-> << >>,
      locale |-> Undefined,
      rev |-> 0,
      complete |-> FALSE ]

(***************************************************************************)
(* Reducer                                                                 *)
(***************************************************************************)
\* for(const refId of refIds) { ... reverseItemMap[refId].add(parentId) }
RECURSIVE insertReverseRef(_, _, _)
insertReverseRef(rmap, parentId, refIds) ==
    IF refIds = << >> THEN rmap
    ELSE LET refId == Head(refIds)
             cur == IF refId \in DOMAIN rmap THEN rmap[refId] ELSE {}
         IN  insertReverseRef((refId :> (cur \cup {parentId})) @@ rmap,
                              parentId, Tail(refIds))

\* Array.prototype.indexOf, 1-based; 0 when absent (-1 in the source)
IndexOf(s, x) ==
    IF \E i \in 1..Len(s) : s[i] = x
    THEN CHOOSE i \in 1..Len(s) : s[i] = x /\ \A j \in 1..(i - 1) : s[j] # x
    ELSE 0

\* Array.prototype.splice(idx, 1)
Splice(s, idx) == [ i \in 1..(Len(s) - 1) |-> IF i < idx THEN s[i] ELSE s[i + 1] ]

\* delete obj[key]
Delete(f, key) == [ k \in (DOMAIN f) \ {key} |-> f[k] ]

\* body of the forEach at lines 110-116: the index searched for is `reference`
RemoveReference(items, reference) ==
    IF reference \notin DOMAIN items \/ ~items[reference].hasItems THEN items
    ELSE LET idx == IndexOf(items[reference].items, reference)
         IN  IF idx = 0 THEN items
             ELSE [items EXCEPT ![reference].items = Splice(@, idx)]

RECURSIVE ForEachReference(_, _)
ForEachReference(items, refs) ==
    IF refs = {} THEN items
    ELSE LET reference == CHOOSE r \in refs : TRUE
         IN  ForEachReference(RemoveReference(items, reference), refs \ {reference})

\* for(const id of action.ids) { ... }, lines 106-119
RECURSIVE RemoveItems(_, _)
RemoveItems(st, ids) ==
    IF ids = << >> THEN st
    ELSE LET id == Head(ids)
             deleted == Delete(st.items, id)
             swept == IF id \in DOMAIN st.reverseItemMap
                      THEN ForEachReference(deleted, st.reverseItemMap[id])
                      ELSE deleted
         IN  RemoveItems([st EXCEPT !.items = swept,
                                    !.reverseItemMap = Delete(@, id)],
                         Tail(ids))

NotAnswerable(type) == type \in {"questionnaire", "group", "surveygroup", "note"}

\* the RESET branch forgets to clear the accumulated errors
ResetKeepErrors(st) ==
    [st EXCEPT !.items = << >>, !.reverseItemMap = << >>, !.valueSets = << >>,
               !.locale = Undefined, !.complete = FALSE]

\* the RESET branch, lines 78-83
ResetFields(st) ==
    [st EXCEPT !.items = << >>,
               !.reverseItemMap = << >>,
               !.valueSets = << >>,
               !.errors = << >>,
               !.locale = Undefined,
               !.complete = FALSE]

\* One iteration of the loop at lines 76-129 on the draft d:
\*   d.state   the draft, d.thrown a DialobError left the recipe,
\*   d.handled calls of handleError made by the recipe.
ApplyOne(d, action) ==
    LET st == d.state IN
    CASE action.type = "RESET" ->
           [d EXCEPT !.state = ResetFields(st)]
      [] action.type = "ANSWER" ->
           IF action.id \notin DOMAIN st.items THEN [d EXCEPT !.thrown = TRUE]
           ELSE IF NotAnswerable(st.items[action.id].type) THEN [d EXCEPT !.thrown = TRUE]
           ELSE [d EXCEPT !.state.items[action.id].value = action.answer]
      [] action.type = "ITEM" ->
           LET item == action.item
               put == (item.id :> item) @@ st.items
           IN  [d EXCEPT !.state =
                    [st EXCEPT !.items = put,
                               !.reverseItemMap =
                                   IF item.hasItems
                                   THEN insertReverseRef(@, item.id, item.items)
                                   ELSE @]]
      [] action.type = "ERROR" ->
           [d EXCEPT !.state.errors = Append(@, action.error)]
      [] action.type = "LOCALE" ->
           [d EXCEPT !.state.locale = action.value]
      [] action.type = "VALUE_SET" ->
           [d EXCEPT !.state.valueSets = (action.valueSet.id :> action.valueSet) @@ @]
      [] action.type = "REMOVE_ITEMS" ->
           [d EXCEPT !.state = RemoveItems(st, action.ids)]
      [] action.type = "COMPLETE" ->
           [d EXCEPT !.state.complete = TRUE]
      [] action.type = "NEXT" -> d
      [] action.type = "PREVIOUS" -> d
      [] OTHER -> [d EXCEPT !.handled = @ + 1]

RECURSIVE Recipe(_, _)
Recipe(d, actions) ==
    IF actions = << >> \/ d.thrown THEN d
    ELSE Recipe(ApplyOne(d, Head(actions)), Tail(actions))

\* a call without a revision moves the revision on by one
StampRevBump(st, rev) == [st EXCEPT !.rev = IF rev = NoRev THEN @ + 1 ELSE rev]

\* if(rev) { state.rev = rev; }
StampRev(st, rev) == IF rev # NoRev /\ rev # 0 THEN [st EXCEPT !.rev = rev] ELSE st

\* the draft of a recipe that threw is kept
ProducePartial(st, actions, rev) ==
    Recipe([state |-> StampRev(st, rev), thrown |-> FALSE, handled |-> 0], actions)

\* produce(this.state, recipe): the recipe's result, or the base when it threw
Produce(st, actions, rev) ==
    LET d == Recipe([state |-> StampRev(st, rev), thrown |-> FALSE, handled |-> 0], actions)
    IN  IF d.thrown THEN [d EXCEPT !.state = st] ELSE d

NoCall == [made |-> FALSE, thrown |-> FALSE, handled |-> 0, updates |-> 0, by |-> "none",
           rev |-> NoRev]

\* applyActions(actions, rev), lines 71-134, called by `by` (queueAction, sync or pull).
\* A throw inside the recipe leaves this.state as it was and skips line 132.
applyActions(actions, rev, by) ==
    LET d == Produce(state, actions, rev)
    IN  /\ state' = d.state
        /\ call' = [made |-> TRUE, thrown |-> d.thrown, handled |-> d.handled,
                    updates |-> IF d.thrown THEN 0 ELSE 1, by |-> by, rev |-> rev]

(***************************************************************************)
(* Action queue and debounce timer                                         *)
(***************************************************************************)
QuietPeriod == 500

NoPending == [base |-> InitialState, clean |-> TRUE]

\* a sync() or pull() call; `events` are the sync and error events it emitted
NewOp(kind, actions, rev, pre, clean) ==
    [ kind |-> kind, pc |-> "awaiting", actions |-> actions, rev |-> rev,
      sentAfter |-> sinceLast, resp |-> [actions |-> << >>, rev |-> NoRev],
      events |-> << "INPROGRESS" >>, pre |-> pre, clean |-> clean ]

NoOp == [ kind |-> "none", pc |-> "none", actions |-> << >>, rev |-> NoRev,
          sentAfter |-> 0, resp |-> [actions |-> << >>, rev |-> NoRev],
          events |-> << >>, pre |-> InitialState, clean |-> FALSE ]

\* another reducer call touches the snapshot the in-flight pushes were sent from
Disturb(except) ==
    [ o \in DOMAIN ops |-> IF o # except THEN [ops[o] EXCEPT !.clean = FALSE] ELSE ops[o] ]

\* the operation at position o has ended
RemoveAt(seq, o) == [ i \in 1..(Len(seq) - 1) |-> IF i < o THEN seq[i] ELSE seq[i + 1] ]

\* clearTimeout(handle)
clearTimeout(table, handle) == [ h \in (DOMAIN table) \ {handle} |-> table[h] ]

\* the timer is not started
NeverArm(table, handle, ms) == table

\* setTimeout(callback, ms) returning `handle`
setTimeout(table, handle, ms) == (handle :> ms) @@ table

\* the timer is left running
KeepSyncTimer(table) == table

\* if(this.syncTimer) { clearTimeout(this.syncTimer); }, lines 150-152 and 159-160
ClearSyncTimer(table) == IF syncTimer # NoTimer THEN clearTimeout(table, syncTimer) ELSE table

\* the action is not queued
PushNothing(queue, action) == queue

\* the action is queued only when its local application succeeds
PushIfApplied(queue, action) ==
    IF Produce(state, << action >>, NoRev).thrown THEN queue
    ELSE Append(queue, [n |-> issued + 1, action |-> action])

\* this.syncActionQueue.push(action)
Push(queue, action) == Append(queue, [n |-> issued + 1, action |-> action])

\* the action is queued and not applied locally
LocalBatchNone(action) == << >>

\* the batch of this.applyActions([action]), line 155
LocalBatch(action) == << action >>

\* queueAction(action), lines 149-156
queueAction(action) ==
    /\ issued < MaxEnqueue
    /\ timers' = setTimeout(ClearSyncTimer(timers), issued + 1, QuietPeriod)
    /\ syncTimer' = issued + 1
    /\ syncActionQueue' = Push(syncActionQueue, action)
    /\ applyActions(LocalBatch(action), NoRev, "queueAction")
    /\ issued' = issued + 1
    /\ log' = Append(log, [action |-> action,
                            joined |-> syncTimer # NoTimer /\ sinceLast < QuietPeriod,
                            thrown |-> Produce(state, LocalBatch(action), NoRev).thrown,
                            reqs |-> << >>])
    /\ sinceLast' = 0
    /\ pending' = IF syncActionQueue = << >> THEN [base |-> state, clean |-> TRUE] ELSE pending
    /\ ops' = Disturb(0)
    /\ UNCHANGED << serverRev, last, pulls >>
    /\ UNCHANGED << listeners, fire >>

Range(seq) == { seq[i] : i \in 1..Len(seq) }

\* number of transport.update calls that carried an action so far
Requests == Cardinality(UNION { Range(log[n].reqs) : n \in DOMAIN log })

\* the actions of the queue entries, as transport.update receives them
ActionsOf(queue) == [ i \in 1..Len(queue) |-> queue[i].action ]

\* the issue numbers of the queue entries
NumbersOf(queue) == { queue[i].n : i \in 1..Len(queue) }

\* sync(actions, rev) up to its await, lines 169-173
sync(actions, rev) ==
    /\ ops' = Append(ops, NewOp("push", actions, rev, pending.base, pending.clean))
    /\ log' = [ n \in 1..issued |->
                  IF n \in NumbersOf(actions)
                  THEN [log[n] EXCEPT !.reqs = Append(@, Requests + 1)] ELSE log[n] ]

\* the queue is handed over and not cleared
SweepKeep(queue) == queue

\* const queue = this.syncActionQueue; this.syncActionQueue = [];
Sweep(queue) == << >>

\* syncQueuedActions, lines 158-167: the callback of timer h, run when h is due
syncQueuedActions(h) ==
    /\ h \in DOMAIN timers
    /\ timers[h] = 0
    /\ timers' = clearTimeout(ClearSyncTimer(timers), h)
    /\ syncTimer' = NoTimer
    /\ syncActionQueue' = Sweep(syncActionQueue)
    /\ sync(syncActionQueue, state.rev)
    /\ pending' = NoPending
    /\ sinceLast' = IF DOMAIN timers' = {} THEN 0 ELSE sinceLast
    /\ UNCHANGED << state, serverRev, call, issued, last, pulls >>
    /\ UNCHANGED << listeners, fire >>

\* time passes while a timer runs; a timer that is due runs before time moves on
Tick ==
    \E d \in Delays :
        /\ DOMAIN timers # {}
        /\ \A h \in DOMAIN timers : timers[h] >= d
        /\ timers' = [ h \in DOMAIN timers |-> timers[h] - d ]
        /\ sinceLast' = sinceLast + d
        /\ UNCHANGED << state, syncActionQueue, syncTimer, ops, serverRev, call, issued,
                        pending, last, pulls, log >>
        /\ UNCHANGED << listeners, fire >>

(***************************************************************************)
(* Convenience methods, lines 200-218                                      *)
(***************************************************************************)
setAnswer == \E itemId \in {"a1"}, answer \in {"x"} : queueAction(AnswerAction(itemId, answer))
complete == queueAction(CompleteAction)
next == queueAction(NextAction)
previous == queueAction(PreviousAction)

(***************************************************************************)
(* Sync coordinator                                                        *)
(***************************************************************************)
\* pull() up to its await, lines 184-188
pull ==
    /\ pulls < MaxPull
    /\ pulls' = pulls + 1
    /\ ops' = Append(ops, NewOp("pull", << >>, NoRev, InitialState, FALSE))
    /\ UNCHANGED << state, syncActionQueue, syncTimer, timers, serverRev, call, issued,
                    sinceLast, pending, last, log >>
    /\ UNCHANGED << listeners, fire >>

\* The remote authority handles a request: update assigns the next revision,
\* getFullState reports the current one.
ServerHandle(o) ==
    /\ ops[o].pc = "awaiting"
    /\ \E actions \in ResponseBatches :
         LET rev == IF ops[o].kind = "push" THEN serverRev + 1 ELSE serverRev
         IN  /\ serverRev' = rev
             /\ ops' = [ops EXCEPT ![o].pc = "replied",
                                   ![o].resp = [actions |-> actions, rev |-> rev]]
    /\ UNCHANGED << state, syncActionQueue, syncTimer, timers, call, issued, sinceLast,
                    pending, last, pulls, log >>
    /\ UNCHANGED << listeners, fire >>

\* handleError(error), lines 235-241
handleError(isRequestError) == IF isRequestError THEN "error:SYNC" ELSE "error:CLIENT"

\* the actions of the failed request go back to the head of the queue
Requeue(queue, swept) == swept \o queue

\* the catch block leaves this.syncActionQueue alone
AfterFailure(queue, swept) == queue

\* The transport call rejects: the catch blocks at lines 174-177 and 189-192
Reject(o) ==
    /\ ops[o].pc = "awaiting"
    /\ syncActionQueue' = AfterFailure(syncActionQueue, ops[o].actions)
    /\ \E isRequestError \in BOOLEAN :
         last' = [ops[o] EXCEPT !.pc = "failed",
                                !.events = Append(@, handleError(isRequestError))]
    /\ ops' = RemoveAt(ops, o)
    /\ UNCHANGED << state, syncTimer, timers, serverRev, call, issued,
                    sinceLast, pending, pulls, log >>
    /\ UNCHANGED << listeners, fire >>

\* The response arrives: lines 179-181 and 194-196. When applyActions throws,
\* the async function rejects there and line 180 / 195 is not reached.
Deliver(o) ==
    /\ ops[o].pc = "replied"
    /\ applyActions(ops[o].resp.actions, ops[o].resp.rev, ops[o].kind)
    /\ last' = IF Produce(state, ops[o].resp.actions, ops[o].resp.rev).thrown
               THEN [ops[o] EXCEPT !.pc = "threw"]
               ELSE [ops[o] EXCEPT !.pc = "done", !.events = Append(@, "DONE")]
    /\ ops' = RemoveAt(Disturb(o), o)
    /\ pending' = IF syncActionQueue = << >> THEN pending ELSE [pending EXCEPT !.clean = FALSE]
    /\ UNCHANGED << syncActionQueue, syncTimer, timers, serverRev, issued, sinceLast,
                    pulls, log >>
    /\ UNCHANGED << listeners, fire >>

(***************************************************************************)
(* Event listeners, lines 37-45 and 220-233                                *)
(***************************************************************************)
\* type Event = 'update' | 'sync' | 'error'
Events == { "update", "sync", "error" }

\* the listener functions a caller holds references to
Listeners == { "l1", "l2", "l3" }

\* listeners = { update: [], sync: [], error: [] }
NoListeners == [ type \in Events |-> << >> ]

\* no fan-out has run yet
NoFire == [ pc |-> "idle", type |-> "update", k |-> 0, len |-> 0,
            started |-> << >>, invoked |-> << >>, removed |-> {} ]

Subscribed(ls) == Len(ls["update"]) + Len(ls["sync"]) + Len(ls["error"])

\* target.push(listener)
Subscribe(ls, type, listener) == [ls EXCEPT ![type] = Append(@, listener)]

\* The position target.splice(idx, 1) deletes, 1-based, 0 when it deletes nothing:
\* idx is findIndex's result, and the -1 of an absent listener counts from the end.
SplicePosition(target, listener) ==
    LET idx == IndexOf(target, listener)
    IN  IF idx # 0 THEN idx ELSE Len(target)

\* const idx = target.findIndex(t => t === listener); target.splice(idx, 1);
Unsubscribe(ls, type, listener) ==
    LET at == SplicePosition(ls[type], listener)
    IN  IF at = 0 THEN ls ELSE [ls EXCEPT ![type] = Splice(@, at)]

\* on(type, listener), lines 224-227, called between fan-outs
on(type, listener) ==
    /\ fire.pc # "running"
    /\ Subscribed(listeners) < MaxSubscribed
    /\ listeners' = Subscribe(listeners, type, listener)
    /\ fire' = NoFire
    /\ UNCHANGED << state, syncActionQueue, syncTimer, timers, ops, serverRev, call,
                    issued, sinceLast, pending, last, pulls, log >>

\* removeListener(type, listener), lines 229-233, called between fan-outs
removeListener(type, listener) ==
    /\ fire.pc # "running"
    /\ listeners' = Unsubscribe(listeners, type, listener)
    /\ fire' = NoFire
    /\ UNCHANGED << state, syncActionQueue, syncTimer, timers, ops, serverRev, call,
                    issued, sinceLast, pending, last, pulls, log >>

\* this.listeners[type].map(l => l(...)) begins (lines 132, 170, 180, 185, 195, 237,
\* 239): map reads the length of the list once, before the first callback
Notify(type) ==
    /\ fire.pc # "running"
    /\ listeners[type] # << >>
    /\ fire' = [ pc |-> "running", type |-> type, k |-> 0, len |-> Len(listeners[type]),
                 started |-> listeners[type], invoked |-> << >>, removed |-> {} ]
    /\ UNCHANGED << state, syncActionQueue, syncTimer, timers, ops, serverRev, call,
                    issued, sinceLast, pending, last, pulls, log, listeners >>

\* what a listener does when it is called: nothing to the lists, or one
\* on/removeListener call on the list being notified
Bodies ==
    { [call |-> "return", listener |-> "l1"] }
    \cup { [call |-> c, listener |-> l] : c \in { "on", "removeListener" }, l \in Listeners }

\* map moves to the next index, and returns after index len - 1
Advance(f) == [f EXCEPT !.k = @ + 1, !.pc = IF f.k + 1 = f.len THEN "done" ELSE "running"]

\* One iteration of map: the callback is called on the element now at index k;
\* an index the list no longer has is skipped.
Invoke ==
    /\ fire.pc = "running"
    /\ LET target == listeners[fire.type]
           at == fire.k + 1
       IN  IF at > Len(target)
           THEN /\ fire' = Advance(fire)
                /\ listeners' = listeners
           ELSE \E body \in Bodies :
                  LET called == [fire EXCEPT !.invoked = Append(@, target[at])]
                      gone == SplicePosition(target, body.listener)
                  IN  CASE body.call = "return" ->
                             /\ listeners' = listeners
                             /\ fire' = Advance(called)
                        [] body.call = "on" ->
                             /\ Subscribed(listeners) < MaxSubscribed
                             /\ listeners' = Subscribe(listeners, fire.type, body.listener)
                             /\ fire' = Advance(called)
                        [] body.call = "removeListener" ->
                             /\ listeners' = Unsubscribe(listeners, fire.type, body.listener)
                             /\ fire' = Advance([called EXCEPT !.removed =
                                    IF gone = 0 THEN @ ELSE @ \cup { target[gone] }])
    /\ UNCHANGED << state, syncActionQueue, syncTimer, timers, ops, serverRev, call,
                    issued, sinceLast, pending, last, pulls, log >>

(***************************************************************************)
(* Specifications                                                          *)
(***************************************************************************)
Init ==
    /\ state = InitialState
    /\ syncActionQueue = << >>
    /\ syncTimer = NoTimer
    /\ timers = << >>
    /\ ops = << >>
    /\ serverRev = 0
    /\ call = NoCall
    /\ issued = 0
    /\ sinceLast = 0
    /\ pending = NoPending
    /\ last = NoOp
    /\ pulls = 0
    /\ log = << >>
    /\ listeners = NoListeners
    /\ fire = NoFire

Next ==
    \/ setAnswer
    \/ complete
    \/ next
    \/ previous
    \/ \E h \in DOMAIN timers : syncQueuedActions(h)
    \/ Tick
    \/ pull
    \/ \E o \in DOMAIN ops : ServerHandle(o)
    \/ \E o \in DOMAIN ops : Reject(o)
    \/ \E o \in DOMAIN ops : Deliver(o)

Spec == Init /\ [][Next]_vars

\* The session when pull() is never called
NextPush ==
    \/ setAnswer
    \/ complete
    \/ next
    \/ previous
    \/ \E h \in DOMAIN timers : syncQueuedActions(h)
    \/ Tick
    \/ \E o \in DOMAIN ops : ServerHandle(o)
    \/ \E o \in DOMAIN ops : Reject(o)
    \/ \E o \in DOMAIN ops : Deliver(o)

SpecPush == Init /\ [][NextPush]_vars

\* Time passes, and the event loop runs a timer that is due
FairSpecPush ==
    /\ SpecPush
    /\ WF_vars(Tick)
    /\ WF_vars(\E h \in DOMAIN timers : syncQueuedActions(h))

\* The reducer alone: arbitrary batches applied to the session state
ApplyBatch ==
    \E actions \in Batches, rev \in RevArgs :
        /\ applyActions(actions, rev, "batch")
        /\ UNCHANGED << syncActionQueue, syncTimer, timers, ops, serverRev, issued,
                        sinceLast, pending, last, pulls, log >>
        /\ UNCHANGED << listeners, fire >>

NextReducer == ApplyBatch

SpecReducer == Init /\ [][NextReducer]_vars

\* The reducer driven over every field of the snapshot
ApplySnapshotBatch ==
    \E actions \in SnapshotBatches, rev \in RevArgs :
        /\ Len(Produce(state, actions, rev).state.errors) <= MaxErrors
        /\ applyActions(actions, rev, "batch")
        /\ UNCHANGED << syncActionQueue, syncTimer, timers, ops, serverRev, issued,
                        sinceLast, pending, last, pulls, log >>
        /\ UNCHANGED << listeners, fire >>

\* applyActions([{ type: 'RESET' }]) with no rev
ApplyReset ==
    /\ applyActions(<< ResetAction >>, NoRev, "reset")
    /\ UNCHANGED << syncActionQueue, syncTimer, timers, ops, serverRev, issued,
                    sinceLast, pending, last, pulls, log >>
    /\ UNCHANGED << listeners, fire >>

NextSnapshot == ApplySnapshotBatch \/ ApplyReset

\* The event notifier: subscriptions and fan-outs
NextListeners ==
    \/ \E type \in Events, listener \in Listeners : on(type, listener)
    \/ \E type \in Events, listener \in Listeners : removeListener(type, listener)
    \/ \E type \in Events : Notify(type)
    \/ Invoke

SpecListeners == Init /\ [][NextListeners]_vars

SpecSnapshot == Init /\ [][NextSnapshot]_vars

(***************************************************************************)
(* Claims                                                                  *)
(***************************************************************************)
IsContainerOf(items, p, c) ==
    p \in DOMAIN items /\ items[p].hasItems /\ c \in Range(items[p].items)

\* C1: in every reachable snapshot reverseItemMap is exactly the inverse of the
\* containment edges: p is in reverseItemMap[c] if and only if items[p] exists,
\* is a container and lists c among its items.
C1_ReverseMapIsInverse ==
    \A p \in Ids, c \in Ids :
        (c \in DOMAIN state.reverseItemMap /\ p \in state.reverseItemMap[c])
            <=> IsContainerOf(state.items, p, c)

RemoveLists == { <<"a1">>, <<"q1">>, <<"a2">>, <<"a1", "q1">> }

\* what REMOVE_ITEMS(ids) is to have done to the snapshot `before`
RemovedFrom(before, after, ids) ==
    \A id \in Range(ids) :
        /\ id \notin DOMAIN after.items
        /\ id \notin DOMAIN after.reverseItemMap
        /\ id \in DOMAIN before.reverseItemMap =>
             \A p \in before.reverseItemMap[id] : ~IsContainerOf(after.items, p, id)

\* C2: after REMOVE_ITEMS(ids) is applied to a reachable snapshot, every id of ids
\* is absent from items and from reverseItemMap, and no container that was in
\* reverseItemMap[id] and still exists lists id among its items.
C2_RemoveItemsUnlinks ==
    \A ids \in RemoveLists :
        RemovedFrom(state, Produce(state, << RemoveItemsAction(ids) >>, NoRev).state, ids)

\* the snapshot after each action of a batch went through queueAction
RECURSIVE Optimistic(_, _)
Optimistic(st, actions) ==
    IF actions = << >> THEN st
    ELSE Optimistic(Produce(st, << Head(actions) >>, NoRev).state, Tail(actions))

\* the latest reducer call reconciled the response of a push whose batch was
\* enqueued from last.pre with no other reducer call in between
Reconciled ==
    last.kind = "push" /\ last.pc = "done" /\ last.clean /\ call.by = "push"

C4_RevNeverDecreases == [][state'.rev >= state.rev]_vars

\* C5: whenever a revision is supplied to applyActions, state.rev equals it after
\* the call, also for revision 0 and when an action of the batch raised an error.
C5_RevOverwritten ==
    (call.made /\ call.rev # NoRev) => state.rev = call.rev

\* the flush is issued exactly one quiet period after the latest enqueue call,
\* calls that follow each other by less than the quiet period go out in one
\* request with no flush between them, and while actions are queued the one timer
\* that will flush them is running
DebounceSafety ==
    /\ \A o \in DOMAIN ops : ops[o].kind = "push" => ops[o].sentAfter = QuietPeriod
    /\ \A n \in DOMAIN log :
         /\ Len(log[n].reqs) <= 1
         /\ (n > 1 /\ log[n].joined) => log[n].reqs = log[n - 1].reqs
    /\ syncActionQueue # << >> =>
         /\ syncTimer \in DOMAIN timers
         /\ timers[syncTimer] = QuietPeriod - sinceLast
    /\ DOMAIN timers \subseteq { syncTimer }

\* C6: trailing-edge debounce. No push is issued before a full quiet period has
\* passed since the latest enqueue call, the calls of a burst go out in exactly one
\* request, and queued actions are always flushed in the end.
C6_TrailingDebounce ==
    /\ []DebounceSafety
    /\ (syncActionQueue # << >>) ~> (syncActionQueue = << >>)

\* two calls less than a quiet period apart went out in one request
C6_Witness ==
    /\ issued >= 2
    /\ log[2].joined
    /\ log[2].reqs = << 1 >>
    /\ \E o \in DOMAIN ops : ops[o].kind = "push" /\ Len(ops[o].actions) = 2

StrictlyIncreasing(queue) ==
    \A i \in 1..Len(queue), j \in 1..Len(queue) : i < j => queue[i].n < queue[j].n

\* C7: every issued action is either still queued or in exactly one request, a
\* request carries the issued actions in issue order, and whatever is queued while
\* a push is in flight is not part of that push but follows it.
C7_SweptOnce ==
    /\ \A n \in 1..issued :
         Len(log[n].reqs) + (IF n \in NumbersOf(syncActionQueue) THEN 1 ELSE 0) = 1
    /\ StrictlyIncreasing(syncActionQueue)
    /\ \A i \in 1..Len(syncActionQueue) :
         syncActionQueue[i].action = log[syncActionQueue[i].n].action
    /\ \A n \in 1..issued, m \in 1..issued :
         (n < m /\ log[n].reqs # << >> /\ log[m].reqs # << >>)
             => log[n].reqs[1] <= log[m].reqs[1]
    /\ \A o \in DOMAIN ops :
         /\ StrictlyIncreasing(ops[o].actions)
         /\ \A i \in 1..Len(ops[o].actions) :
              /\ ops[o].actions[i].action = log[ops[o].actions[i].n].action
              /\ log[ops[o].actions[i].n].reqs # << >>
              /\ \A k \in 1..Len(syncActionQueue) :
                   syncActionQueue[k].n > ops[o].actions[i].n

\* an action was enqueued while an earlier push awaits its response
C7_Witness ==
    /\ syncActionQueue # << >>
    /\ \E o \in DOMAIN ops : ops[o].kind = "push" /\ ops[o].actions # << >>

\* C8: no transport.update request carries an empty action list.
C8_NoEmptyPush ==
    /\ \A o \in DOMAIN ops : ops[o].kind = "push" => ops[o].actions # << >>
    /\ last.kind = "push" => last.actions # << >>

\* the timer ran twice and both flushes found actions to send
C8_Witness ==
    /\ Requests = 2
    /\ syncActionQueue = << >>
    /\ timers = << >>

\* C9: every pull and push emits INPROGRESS before its transport call and ends with
\* exactly one terminating event: DONE when the response was reconciled, an error
\* event otherwise.
C9_OneTerminatingEvent ==
    /\ \A o \in DOMAIN ops : ops[o].events = << "INPROGRESS" >>
    /\ last.kind # "none" =>
         /\ Len(last.events) = 2
         /\ last.events[1] = "INPROGRESS"
         /\ IF last.pc = "done" THEN last.events[2] = "DONE"
            ELSE last.events[2] \in { "error:SYNC", "error:CLIENT" }

\* C10: every call of applyActions notifies the update listeners exactly once.
C10_UpdateOncePerCall == call.made => call.updates = 1

\* client errors raised by the latest applyActions call: those handed to
\* handleError and the one that left the recipe as an exception
ClientErrorsRaised == call.handled + (IF call.thrown THEN 1 ELSE 0)

\* C11: every client error raised while applying actions (ANSWER on a missing or
\* non-answerable item, unknown action type) is delivered to the error listeners
\* as 'CLIENT' and is not thrown to the caller of the batch.
C11_ClientErrorsRouted ==
    call.made => (~call.thrown /\ call.handled = ClientErrorsRaised)

\* some ANSWER of the batch meets a missing or non-answerable item when its turn
\* comes, the actions before it having been applied
RECURSIVE HasBadAnswer(_, _)
HasBadAnswer(st, actions) ==
    IF actions = << >> THEN FALSE
    ELSE LET a == Head(actions)
         IN  IF a.type = "ANSWER"
                /\ (a.id \notin DOMAIN st.items \/ NotAnswerable(st.items[a.id].type))
             THEN TRUE
             ELSE HasBadAnswer(Produce(st, << a >>, NoRev).state, Tail(actions))

AllOrNothing ==
    \A actions \in Batches, rev \in RevArgs :
        HasBadAnswer(state, actions) =>
            /\ Produce(state, actions, rev).thrown
            /\ Produce(state, actions, rev).state = state

\* C12: a batch with an ANSWER on a missing or non-answerable item fails with a
\* client error and leaves the snapshot as it was in every field; the update
\* listeners are not called, so readers see the pre-batch snapshot only.
C12_AllOrNothing ==
    /\ []AllOrNothing
    /\ [][call'.thrown => (state' = state /\ call'.updates = 0)]_vars

\* a batch failed on a snapshot with items, and some failing batch has an earlier
\* action whose effect on the draft was discarded
C12_Witness ==
    /\ call.made /\ call.thrown
    /\ state.items # << >>
    /\ \E actions \in Batches :
         /\ HasBadAnswer(state, actions)
         /\ ProducePartial(state, actions, NoRev).state # state

\* C13: from any reachable snapshot a lone RESET with no newRev yields items={},
\* reverseItemMap={}, valueSets={}, errors=[], locale undefined, complete=false and
\* leaves rev as it was.
C13_ResetYieldsEmpty ==
    /\ [](Produce(state, << ResetAction >>, NoRev) =
            [state |-> [InitialState EXCEPT !.rev = state.rev], thrown |-> FALSE,
             handled |-> 0])
    /\ [][call'.by = "reset" => state' = [InitialState EXCEPT !.rev = state.rev]]_vars

\* the lone RESET acted on a snapshot whose revision was not the initial one
C13_Witness ==
    /\ call.by = "reset"
    /\ state.rev = 1
    /\ state = [InitialState EXCEPT !.rev = 1]

Count(seq, x) == Cardinality({ i \in 1..Len(seq) : seq[i] = x })

\* C14: when a fan-out has ended, every listener that was subscribed when it
\* started and was not removed during it has been called exactly once, whatever
\* on/removeListener calls the listeners made from inside their invocation.
C14_IterationSafe ==
    fire.pc = "done" =>
        \A l \in Listeners :
            (Count(fire.started, l) = 1 /\ l \notin fire.removed)
                => Count(fire.invoked, l) = 1

\* C15: at most one push (transport.update issued, response not yet processed) is
\* outstanding at any time, whatever the timing of enqueue calls and responses.
C15_PushesSerialized ==
    Cardinality({ o \in DOMAIN ops : ops[o].kind = "push" }) <= 1

\* the list of `type` without the first occurrence of l
WithoutFirst(target, l) ==
    IF IndexOf(target, l) = 0 THEN target ELSE Splice(target, IndexOf(target, l))

\* C16: removeListener(type, l) removes l from the list of type and changes
\* nothing else: the other two lists stay, no other listener is removed, and when
\* l is not subscribed to type every list stays as it was.
C16_RemoveByIdentity ==
    \A type \in Events, l \in Listeners :
        Unsubscribe(listeners, type, l) =
            [listeners EXCEPT ![type] = WithoutFirst(@, l)]

\* C17: setAnswer, complete, next and previous leave state.rev as it was, whether
\* the local application succeeds or raises a client error; rev changes only in
\* the step that applies the response of a pull or a push.
C17_LocalKeepsRev ==
    [][ /\ issued' # issued => state'.rev = state.rev
        /\ state'.rev # state.rev =>
              (call'.by \in { "push", "pull" } /\ Len(ops') < Len(ops)) ]_vars

\* a local call was applied to a snapshot that a response had given revision 1
C17_Witness ==
    /\ call.by = "queueAction"
    /\ issued = 2
    /\ state.rev = 1

TimerIffQueued ==
    /\ (syncTimer # NoTimer) <=> (syncActionQueue # << >>)
    /\ DOMAIN timers = (IF syncTimer = NoTimer THEN {} ELSE { syncTimer })

\* C18: between operations the debounce timer is armed if and only if the queue is
\* non-empty, at most one timer is armed, and the step in which the timer fires
\* clears the handle and empties the queue.
C18_TimerIffQueue ==
    /\ []TimerIffQueued
    /\ [][ Len(ops') > Len(ops) =>
             (syncTimer' = NoTimer /\ syncActionQueue' = << >> /\ DOMAIN timers' = {}) ]_vars

\* the timer fired once, and an action enqueued after that armed it again
C18_Witness ==
    /\ Len(ops) = 1
    /\ Len(syncActionQueue) = 1
    /\ syncTimer = 2
    /\ 2 \in DOMAIN timers

\* C19: when a push fails the snapshot (rev and optimistic effects included) stays
\* exactly as it was, the swept actions are not put back into the queue and are
\* not sent again, and what was enqueued meanwhile stays queued.
C19_FailedPushDropped ==
    /\ [][ (Len(ops') < Len(ops) /\ last'.pc = "failed") =>
             /\ state' = state
             /\ syncActionQueue' = syncActionQueue
             /\ syncTimer' = syncTimer
             /\ timers' = timers ]_vars
    /\ [](last.pc = "failed" =>
             \A i \in 1..Len(last.actions) :
                 /\ last.actions[i].n \notin NumbersOf(syncActionQueue)
                 /\ Len(log[last.actions[i].n].reqs) = 1)

\* a push failed while a later action waits in the queue, and the optimistic
\* effect of the failed batch is still in the snapshot
C19_Witness ==
    /\ last.kind = "push"
    /\ last.pc = "failed"
    /\ syncActionQueue # << >>
    /\ \E i \in 1..Len(last.actions) : last.actions[i].action = CompleteAction
    /\ state.complete

\* C20: a setAnswer whose local application raises a client error leaves the
\* snapshot unchanged, and its action is in the queue with the timer armed for a
\* full quiet period; the action goes out in a push.
C20_FailedActionStillSent ==
    /\ [][ (issued' = issued + 1 /\ call'.thrown) =>
             /\ state' = state
             /\ syncActionQueue' =
                    Append(syncActionQueue, [n |-> issued', action |-> log'[issued'].action])
             /\ syncTimer' \in DOMAIN timers'
             /\ timers'[syncTimer'] = QuietPeriod ]_vars
    /\ \A n \in 1..MaxEnqueue :
          (n \in DOMAIN log /\ log[n].thrown) ~> (n \in DOMAIN log /\ Len(log[n].reqs) = 1)

\* the action of a setAnswer that raised a client error was sent to the authority
C20_Witness ==
    \E n \in DOMAIN log :
        /\ log[n].thrown
        /\ log[n].action.type = "ANSWER"
        /\ log[n].reqs # << >>

=============================================================================
